---- MODULE Spec2Model ----
(***************************************************************************)
(* Split & Settle: the settlement engine of src/utils/validation.ts        *)
(* (calculateBalances, calculateMinimumTransactions) as a state machine.   *)
(*                                                                         *)
(* Amounts.  A money amount is an integer number of "ticks" of 0.002       *)
(* currency units (5 ticks = 0.01).  Sums of ticks never fall on a half    *)
(* cent, so Math.round(x * 100) / 100 is decided by the exact value and    *)
(* the binary drift of the running sums cannot change it.                  *)
(*                                                                         *)
(* Inside the matching loop the code subtracts IEEE-754 doubles and        *)
(* compares the results with 0.01; there the binary drift does decide the  *)
(* outcome (0.03 - 0.02 < 0.01 but 0.51 - 0.5 > 0.01).  A double near a    *)
(* whole number of cents is kept as [n |-> cents, d |-> drift] and stands  *)
(* for the real number (n * 2^59 + d) / (100 * 2^59).                      *)
(***************************************************************************)
EXTENDS Integers, Sequences, FiniteSets, TLC

\* ----- bounds of the model ------------------------------------------------
NumIds == 3
MaxExpenses == 1
MaxSettlements == 1
MaxCalls == 2
MaxChecks == 7
MaxStarted == 3
MaxPending == 2
MaxShown == 1
MaxKeys == 2

Ids == 1..NumIds

\* ids the backend hands out for new rows start here; hydrated rows have smaller ids
FirstNewId == 1000

\* display names; two ids may carry the same name
NameOf(id) == <<"Asha", "Ben", "Chen", "Asha", "Dev", "Ben", "Esi">>[id]

\* ----- small helpers --------------------------------------------------------
RECURSIVE SeqsNoDup(_, _)
\* the sequences of length len of distinct elements of S
SeqsNoDup(S, len) ==
    IF len = 0 THEN {<<>>}
    ELSE UNION {{Append(s, x) : x \in S \ {s[k] : k \in 1..Len(s)}} : s \in SeqsNoDup(S, len - 1)}

RECURSIVE SetToSeq(_)
\* the elements of a set of integers in ascending order
SetToSeq(S) ==
    IF S = {} THEN <<>>
    ELSE LET m == CHOOSE x \in S : \A y \in S : x <= y
         IN <<m>> \o SetToSeq(S \ {m})

RECURSIVE SeqsUpTo(_, _)
\* the sequences of length at most len over S
SeqsUpTo(S, len) ==
    IF len = 0 THEN {<<>>}
    ELSE SeqsUpTo(S, len - 1) \cup {Append(s, x) : s \in {t \in SeqsUpTo(S, len - 1) : Len(t) = len - 1}, x \in S}

RECURSIVE Sum(_)
\* the sum of a sequence of integers
Sum(s) == IF Len(s) = 0 THEN 0 ELSE s[Len(s)] + Sum(SubSeq(s, 1, Len(s) - 1))

Max(a, b) == IF a >= b THEN a ELSE b
Min(a, b) == IF a <= b THEN a ELSE b
Abs(a) == IF a < 0 THEN -a ELSE a

\* ----- the input data (src/unnamed/part_001: Member, Expense, ...) ---------
Member(id) == [id |-> id, name |-> NameOf(id)]

ExpenseSplit(memberId, amount) == [memberId |-> memberId, amount |-> amount]

Expense(paidById, amount, splits) == [paidById |-> paidById, amount |-> amount, splits |-> splits]

Settlement(fromId, toId, amount) == [fromId |-> fromId, toId |-> toId, amount |-> amount]

\* ----- numbers ---------------------------------------------------------------
\* Math.round(x * 100) / 100 on ticks: the nearest whole cent, halves upwards
round2(x) == 5 * ((2 * x + 5) \div 10)

Pow2(k) == 2^k

\* 2^s modulo m (s < 80), by 2^s = (2^20)^(s \div 20) * 2^(s % 20)
Pow2Mod(s, m) == ((((2^20) % m)^(s \div 20)) % m) * ((2^(s % 20)) % m) % m

\* the real number n/100 + d/(100 * 2^59) is at least 2^e
AtLeastPow2(n, d, e) ==
    IF e >= 0
    THEN n > 100 * Pow2(e) \/ (n = 100 * Pow2(e) /\ d >= 0)
    ELSE n * Pow2(-e) > 100 \/ (n * Pow2(-e) = 100 /\ d >= 0)

\* the binary exponent of that number (n >= 1)
Exponent(n, d) == CHOOSE e \in -7..20 : AtLeastPow2(n, d, e) /\ ~AtLeastPow2(n, d, e + 1)

\* the double nearest to n/100 + d/(100 * 2^59), ties to the even mantissa
fround(n, d) ==
    IF n < 1 THEN [n |-> n, d |-> d]
    ELSE LET ex == Exponent(n, d)
             G == 100 * Pow2(ex + 7)
             R == (Pow2(ex + 7) * (((n % 100) * Pow2Mod(52 - ex, 100)) % 100) + d) % G
             R2 == (Pow2(ex + 7) * (((n % 200) * Pow2Mod(52 - ex, 200)) % 200) + d) % (2 * G)
         IN IF 2 * R < G \/ (2 * R = G /\ R2 < G)
            THEN [n |-> n, d |-> d - R]
            ELSE [n |-> n, d |-> d - R + G]

\* the double that a balance of b ticks (a whole number of cents) is
double(b) == IF b = 0 THEN [n |-> 0, d |-> 0] ELSE fround(b \div 5, 0)

\* fsub with the result thrown away (debtor.amount - amount; without the assignment)
fsubDropped(a, b) == a

\* a - b on doubles, a >= b
fsub(a, b) == fround(a.n - b.n, a.d - b.d)

\* a < b on doubles
flt(a, b) == a.n < b.n \/ (a.n = b.n /\ a.d < b.d)

\* fmin that takes the larger one
fmax(a, b) == IF flt(b, a) THEN a ELSE b

\* Math.min on doubles
fmin(a, b) == IF flt(b, a) THEN b ELSE a

\* fround2 that rounds up to the next cent
fround2Up(a) == 5 * (a.n + 1)

\* Math.round(amount * 100) / 100 of a double, in ticks
fround2(a) == 5 * a.n

\* Cent with the tolerance left at zero
CentZero == double(0)

\* the constant 0.01 of the comparisons
Cent == double(5)

\* ----- calculateBalances -------------------------------------------------------
\* (balanceMap[k] || 0)
Get(balanceMap, k) == IF k \in DOMAIN balanceMap THEN balanceMap[k] ELSE 0

\* balanceMap[k] = v
Put(balanceMap, k, v) == [x \in (DOMAIN balanceMap) \cup {k} |-> IF x = k THEN v ELSE balanceMap[x]]

RECURSIVE initMembers(_, _)
\* members.forEach((m) => { balanceMap[m.id] = 0; })
initMembers(balanceMap, ms) ==
    IF ms = <<>> THEN balanceMap
    ELSE initMembers(Put(balanceMap, Head(ms).id, 0), Tail(ms))

RECURSIVE processSplitsKnownOnly(_, _)
\* processSplits that skips a split whose member is not in the map
processSplitsKnownOnly(balanceMap, splits) ==
    IF splits = <<>> THEN balanceMap
    ELSE LET split == Head(splits)
         IN processSplitsKnownOnly(
                IF split.memberId \in DOMAIN balanceMap
                THEN Put(balanceMap, split.memberId, Get(balanceMap, split.memberId) - split.amount)
                ELSE balanceMap,
                Tail(splits))

RECURSIVE processSplits(_, _)
\* expense.splits.forEach: each member owes their split
processSplits(balanceMap, splits) ==
    IF splits = <<>> THEN balanceMap
    ELSE LET split == Head(splits)
         IN processSplits(Put(balanceMap, split.memberId, Get(balanceMap, split.memberId) - split.amount),
                          Tail(splits))

RECURSIVE processExpensesSplitSum(_, _)
\* processExpenses that credits the payer with the sum of the splits
processExpensesSplitSum(balanceMap, es) ==
    IF es = <<>> THEN balanceMap
    ELSE LET expense == Head(es)
             total == Sum([q \in 1..Len(expense.splits) |-> expense.splits[q].amount])
             paid == Put(balanceMap, expense.paidById, Get(balanceMap, expense.paidById) + total)
         IN processExpensesSplitSum(processSplits(paid, expense.splits), Tail(es))

RECURSIVE processExpenses(_, _)
\* expenses.forEach: the payer is credited the full amount, then the splits
processExpenses(balanceMap, es) ==
    IF es = <<>> THEN balanceMap
    ELSE LET expense == Head(es)
             paid == Put(balanceMap, expense.paidById, Get(balanceMap, expense.paidById) + expense.amount)
         IN processExpenses(processSplits(paid, expense.splits), Tail(es))

RECURSIVE processSettlementsReversed(_, _)
\* processSettlements with the two signs exchanged
processSettlementsReversed(balanceMap, ss) ==
    IF ss = <<>> THEN balanceMap
    ELSE LET s == Head(ss)
             m1 == Put(balanceMap, s.fromId, Get(balanceMap, s.fromId) - s.amount)
             m2 == Put(m1, s.toId, Get(m1, s.toId) + s.amount)
         IN processSettlementsReversed(m2, Tail(ss))

RECURSIVE processSettlements(_, _)
\* settlements.forEach: from pays to
processSettlements(balanceMap, ss) ==
    IF ss = <<>> THEN balanceMap
    ELSE LET s == Head(ss)
             m1 == Put(balanceMap, s.fromId, Get(balanceMap, s.fromId) + s.amount)
             m2 == Put(m1, s.toId, Get(m1, s.toId) - s.amount)
         IN processSettlements(m2, Tail(ss))

\* the balanceMap after the three forEach loops
tally(ms, es, ss) == processSettlements(processExpenses(initMembers(<<>>, ms), es), ss)

\* calculateBalances that emits one entry per key of the map
calculateBalancesByKey(ms, es, ss) ==
    LET balanceMap == tally(ms, es, ss)
        keys == SetToSeq(DOMAIN balanceMap)
    IN [k \in 1..Len(keys) |->
          [memberId |-> keys[k], memberName |-> NameOf(keys[k]),
           balance |-> round2(balanceMap[keys[k]])]]

\* one BalanceEntry per member, in member order
calculateBalances(ms, es, ss) ==
    LET balanceMap == tally(ms, es, ss)
    IN [k \in 1..Len(ms) |->
          [memberId |-> ms[k].id, memberName |-> ms[k].name,
           balance |-> round2(Get(balanceMap, ms[k].id))]]

\* ----- calculateMinimumTransactions ------------------------------------------------
\* the working record { id, name, amount } of the creditors and debtors lists
Party(b, amount) == [id |-> b.memberId, name |-> b.memberName, amount |-> amount]

RECURSIVE creditorsOf(_)
\* balances.forEach: b.balance > 0.01 goes to creditors
creditorsOf(bs) ==
    IF bs = <<>> THEN <<>>
    ELSE LET b == Head(bs)
         IN (IF flt(Cent, double(b.balance)) THEN <<Party(b, double(b.balance))>> ELSE <<>>)
            \o creditorsOf(Tail(bs))

RECURSIVE debtorsOf(_)
\* balances.forEach: b.balance < -0.01 goes to debtors, with amount -b.balance
debtorsOf(bs) ==
    IF bs = <<>> THEN <<>>
    ELSE LET b == Head(bs)
         IN (IF flt(Cent, double(-b.balance)) THEN <<Party(b, double(-b.balance))>> ELSE <<>>)
            \o debtorsOf(Tail(bs))

\* insertDesc that puts x in front of the entries equal to it
insertDescBeforeTies(sorted, x) ==
    LET k == Cardinality({p \in 1..Len(sorted) : flt(x.amount, sorted[p].amount)})
    IN SubSeq(sorted, 1, k) \o <<x>> \o SubSeq(sorted, k + 1, Len(sorted))

\* x put into a list that is in descending order, behind the entries not below it
insertDesc(sorted, x) ==
    LET k == Cardinality({p \in 1..Len(sorted) : ~flt(sorted[p].amount, x.amount)})
    IN SubSeq(sorted, 1, k) \o <<x>> \o SubSeq(sorted, k + 1, Len(sorted))

RECURSIVE sortDesc(_)
\* list.sort((a, b) => b.amount - a.amount): descending, stable
sortDesc(list) ==
    IF list = <<>> THEN <<>>
    ELSE insertDesc(sortDesc(SubSeq(list, 1, Len(list) - 1)), list[Len(list)])

\* a TransactionSuggestion
Suggestion(debtor, creditor, amount) ==
    [fromId |-> debtor.id, fromName |-> debtor.name,
     toId |-> creditor.id, toName |-> creditor.name, amount |-> amount]

\* ----- the state ---------------------------------------------------------------
VARIABLES
    members,        \* the group's members, in order
    expenses,       \* the group's expenses
    settlements,    \* the group's recorded settlements
    pc,             \* "ready", "loop", "done" (the list is shown) or "changed" (a render is due)
    balances,       \* calculateMinimumTransactions: const balances
    creditors,      \* its working list of creditors
    debtors,        \* its working list of debtors
    i,              \* cursor into debtors (from 0)
    j,              \* cursor into creditors (from 0)
    transactions,   \* the suggestions pushed so far
    results,        \* what the finished calls returned, in call order
    given,          \* the arguments of the call in progress
    recorded,       \* the rows of the suggestions that were recorded as settlements
    inFlight,       \* the addSettlement calls of the Settle Up screen that wait for the backend
    params,         \* the route params of the open Settle Up screen, <<>> when it is closed
    now,            \* rate limiter: Date.now(), in ms since the app started
    buckets,        \* rate limiter: const buckets, action key -> Bucket
    checks,         \* rate limiter: the calls of checkRateLimit so far and their results
    store,          \* the zustand state: groups, expenses, settlements, isHydrated
    pending,        \* the store actions that are waiting for the backend
    nextId,         \* the next id the backend hands out
    started,        \* how many store actions have been called
    log,            \* the store calls that have finished: what each returned
    session,        \* AuthProvider: a user is signed in
    screen          \* what the screens have shown: alerts and navigations

engineVars == <<members, expenses, settlements, pc, balances, creditors, debtors, i, j,
                transactions, results, given, recorded, inFlight, params>>

settleVars == <<recorded, inFlight, params>>

limiterVars == <<now, buckets, checks>>

storeVars == <<store, pending, nextId, started, log>>

appVars == <<session, screen>>

vars == <<engineVars, limiterVars, storeVars, appVars>>

inputs == <<members, expenses, settlements>>

\* ----- the inputs the model draws -----------------------------------------------
MemberLists == {[k \in 1..Len(s) |-> Member(s[k])] : s \in UNION {SeqsNoDup(Ids, n) : n \in 0..NumIds}}

\* expense totals, validated to two decimals: 1.00 and 0.51
ExpenseAmounts == {500, 255}

\* split amounts, kept as typed: 0.50 and 0.254
SplitAmounts == {250, 127}

\* settlement amounts, validated to two decimals: 0.50 and 0.01
SettlementAmounts == {250, 5}

\* one split per selected member, in id order
SplitLists ==
    {<<>>} \cup
    UNION {{[k \in 1..Len(SetToSeq(S)) |-> ExpenseSplit(SetToSeq(S)[k], f[SetToSeq(S)[k]])] :
              f \in [S -> SplitAmounts]} : S \in (SUBSET Ids) \ {{}}}

Expenses == {Expense(p, a, sp) : p \in Ids, a \in ExpenseAmounts, sp \in SplitLists}

Settlements == {Settlement(f, t, a) : f \in Ids, t \in Ids, a \in SettlementAmounts}

\* the rate limiter when the module is loaded: no bucket yet
limiterStart ==
    /\ now = 0
    /\ buckets = <<>>
    /\ checks = <<>>

\* the store as create() builds it
storeStart ==
    /\ store = [groups |-> <<>>, expenses |-> <<>>, settlements |-> <<>>, isHydrated |-> FALSE]
    /\ pending = <<>>
    /\ nextId = FirstNewId
    /\ started = 0
    /\ log = <<>>

\* the app when it is opened: nobody signed in, nothing shown
appStart ==
    /\ session = FALSE
    /\ screen = <<>>

Init ==
    /\ members \in MemberLists
    /\ expenses \in SeqsUpTo(Expenses, MaxExpenses)
    /\ settlements \in SeqsUpTo(Settlements, MaxSettlements)
    /\ pc = "ready"
    /\ balances = <<>>
    /\ creditors = <<>>
    /\ debtors = <<>>
    /\ i = 0
    /\ j = 0
    /\ transactions = <<>>
    /\ results = <<>>
    /\ given = <<>>
    /\ recorded = <<>>
    /\ inFlight = <<>>
    /\ params = <<>>
    /\ limiterStart
    /\ storeStart
    /\ appStart

\* ----- the operations --------------------------------------------------------------
\* call with the transactions list kept from the call before
callStale ==
    /\ pc \in {"ready", "done", "changed"}
    /\ Len(results) < MaxCalls
    /\ given' = inputs
    /\ balances' = calculateBalances(members, expenses, settlements)
    /\ creditors' = sortDesc(creditorsOf(balances'))
    /\ debtors' = sortDesc(debtorsOf(balances'))
    /\ i' = 0
    /\ j' = 0
    /\ pc' = "loop"
    /\ UNCHANGED <<members, expenses, settlements, results, transactions, settleVars, limiterVars, storeVars, appVars>>

\* calculateMinimumTransactions is called: lines 212-233, up to the loop
call ==
    /\ pc \in {"ready", "done", "changed"}
    /\ Len(results) < MaxCalls
    /\ given' = inputs
    /\ balances' = calculateBalances(members, expenses, settlements)
    /\ creditors' = sortDesc(creditorsOf(balances'))
    /\ debtors' = sortDesc(debtorsOf(balances'))
    /\ transactions' = <<>>
    /\ i' = 0
    /\ j' = 0
    /\ pc' = "loop"
    /\ UNCHANGED <<members, expenses, settlements, results, settleVars, limiterVars, storeVars, appVars>>

\* loopStep whose cursors advance on amount < 0 instead of amount < 0.01
loopStepStuck ==
    /\ pc = "loop"
    /\ i < Len(debtors) /\ j < Len(creditors)
    /\ LET debtor == debtors[i + 1]
           creditor == creditors[j + 1]
           amount == fmin(debtor.amount, creditor.amount)
           debtorLeft == fsub(debtor.amount, amount)
           creditorLeft == fsub(creditor.amount, amount)
       IN /\ transactions' =
                IF flt(Cent, amount)
                THEN Append(transactions, Suggestion(debtor, creditor, fround2(amount)))
                ELSE transactions
          /\ debtors' = [debtors EXCEPT ![i + 1].amount = debtorLeft]
          /\ creditors' = [creditors EXCEPT ![j + 1].amount = creditorLeft]
          /\ i' = IF flt(debtorLeft, double(0)) THEN i + 1 ELSE i
          /\ j' = IF flt(creditorLeft, double(0)) THEN j + 1 ELSE j
    /\ UNCHANGED <<members, expenses, settlements, pc, balances, results, given, settleVars, limiterVars, storeVars, appVars>>

\* one pass of the body of while (i < debtors.length && j < creditors.length)
loopStep ==
    /\ pc = "loop"
    /\ i < Len(debtors) /\ j < Len(creditors)
    /\ LET debtor == debtors[i + 1]
           creditor == creditors[j + 1]
           amount == fmin(debtor.amount, creditor.amount)
           debtorLeft == fsub(debtor.amount, amount)
           creditorLeft == fsub(creditor.amount, amount)
       IN /\ transactions' =
                IF flt(Cent, amount)
                THEN Append(transactions, Suggestion(debtor, creditor, fround2(amount)))
                ELSE transactions
          /\ debtors' = [debtors EXCEPT ![i + 1].amount = debtorLeft]
          /\ creditors' = [creditors EXCEPT ![j + 1].amount = creditorLeft]
          /\ i' = IF flt(debtorLeft, Cent) THEN i + 1 ELSE i
          /\ j' = IF flt(creditorLeft, Cent) THEN j + 1 ELSE j
    /\ UNCHANGED <<members, expenses, settlements, pc, balances, results, given, settleVars, limiterVars, storeVars, appVars>>

\* the loop condition is false: return transactions
return ==
    /\ pc = "loop"
    /\ ~(i < Len(debtors) /\ j < Len(creditors))
    /\ results' = Append(results, transactions)
    /\ pc' = "done"
    /\ UNCHANGED <<members, expenses, settlements, balances, creditors, debtors, i, j,
                   transactions, given, settleVars, limiterVars, storeVars, appVars>>

Next == call \/ loopStep \/ return

Spec == Init /\ [][Next]_vars

\* ----- larger groups with consistent books ----------------------------------------
\* Five members; one expense paid by member 1 whose splits (members 4 and 5) add
\* up to its total; up to two settlements paid to member 1 by members 2 and 3.
FiveMembers == [k \in 1..5 |-> Member(k)]

\* 0.01, 0.03, 0.04 and 0.06
FiveSplitAmounts == {5, 15, 20, 30}

FiveExpenses ==
    {Expense(1, a + b, <<ExpenseSplit(4, a), ExpenseSplit(5, b)>>) :
        a \in FiveSplitAmounts, b \in FiveSplitAmounts}

\* 0.01, 0.02 and 0.03
FiveSettlements == {Settlement(f, 1, a) : f \in {2, 3}, a \in {5, 10, 15}}

InitFive ==
    /\ members = FiveMembers
    /\ expenses \in {<<e>> : e \in FiveExpenses}
    /\ settlements \in SeqsUpTo(FiveSettlements, 2)
    /\ pc = "ready"
    /\ balances = <<>>
    /\ creditors = <<>>
    /\ debtors = <<>>
    /\ i = 0
    /\ j = 0
    /\ transactions = <<>>
    /\ results = <<>>
    /\ given = <<>>
    /\ recorded = <<>>
    /\ inFlight = <<>>
    /\ params = <<>>
    /\ limiterStart
    /\ storeStart
    /\ appStart

SpecFive == InitFive /\ [][Next]_vars

\* ----- groups of two to four members with whole amounts --------------------------
\* Members 1 and 2 pay; the books hold up to two expenses and up to one settlement.
\* 15000 ticks are 30.00, 25000 ticks are 50.00, 15 ticks are 0.03.
BookMembers == {[k \in 1..n |-> Member(k)] : n \in 2..4}

BookSplitAmounts == {7500, 12500, 15}

BookExpenses ==
    {Expense(1, 45000, <<ExpenseSplit(1, 15000), ExpenseSplit(2, 15000), ExpenseSplit(3, 15000)>>)}
    \cup {Expense(1, 2 * a, <<ExpenseSplit(1, a), ExpenseSplit(2, a)>>) : a \in {25000, 15}}
    \cup {Expense(p, a + b, <<ExpenseSplit(3, a), ExpenseSplit(4, b)>>) :
              p \in {1, 2}, a \in BookSplitAmounts, b \in BookSplitAmounts}

BookSettlements ==
    {Settlement(2, 1, 25000), Settlement(2, 1, 15), Settlement(3, 1, 7500), Settlement(1, 2, 25000)}

InitBooks ==
    /\ members \in BookMembers
    /\ expenses \in SeqsUpTo(BookExpenses, 2)
    /\ settlements \in SeqsUpTo(BookSettlements, 1)
    /\ pc = "ready"
    /\ balances = <<>>
    /\ creditors = <<>>
    /\ debtors = <<>>
    /\ i = 0
    /\ j = 0
    /\ transactions = <<>>
    /\ results = <<>>
    /\ given = <<>>
    /\ recorded = <<>>
    /\ inFlight = <<>>
    /\ params = <<>>
    /\ limiterStart
    /\ storeStart
    /\ appStart

SpecBooks == InitBooks /\ [][Next]_vars

\* ----- the rate limiter (src/unnamed/part_004) -----------------------------------
\* V_LIMITS-like constants of the two configurations
DefaultMaxTokens == 5
DefaultRefillRateMs == 10000
StrictMaxTokens == 3
StrictRefillRateMs == 15000

DEFAULT_CONFIG == [maxTokens |-> DefaultMaxTokens, refillRateMs |-> DefaultRefillRateMs]

STRICT_CONFIG == [maxTokens |-> StrictMaxTokens, refillRateMs |-> StrictRefillRateMs]

\* the instants at which the screens call the limiter, in ms
Instants == {0, 9999, 10000, 10999, 14999, 15000}

\* the configuration each action key is always checked with
ConfigOf(actionKey) ==
    IF actionKey \in {"delete:" \o action : action \in {"clearAll"}} THEN STRICT_CONFIG
    ELSE DEFAULT_CONFIG

\* buckets.get(actionKey), or the bucket the first call creates
bucketAt(actionKey, config) ==
    IF actionKey \in DOMAIN buckets THEN buckets[actionKey]
    ELSE [tokens |-> config.maxTokens, lastRefill |-> now]

\* the bucket after "Refill tokens based on elapsed time"
refilled(bucket, config) ==
    LET elapsed == now - bucket.lastRefill
        refillCount == (elapsed \div config.refillRateMs) * config.maxTokens
    IN IF refillCount > 0
       THEN [tokens |-> Min(config.maxTokens, bucket.tokens + refillCount), lastRefill |-> now]
       ELSE bucket

\* rateLimitResult that always asks to wait for the shortest time
rateLimitResultFlat(actionKey, config) ==
    LET bucket == bucketAt(actionKey, config)
    IN IF refilled(bucket, config).tokens > 0
       THEN [allowed |-> TRUE, retryAfterMs |-> 0]
       ELSE [allowed |-> FALSE, retryAfterMs |-> 1000]

\* what checkRateLimit returns
rateLimitResult(actionKey, config) ==
    LET bucket == bucketAt(actionKey, config)
        elapsed == now - bucket.lastRefill
    IN IF refilled(bucket, config).tokens > 0
       THEN [allowed |-> TRUE, retryAfterMs |-> 0]
       ELSE [allowed |-> FALSE, retryAfterMs |-> Max(config.refillRateMs - elapsed, 1000)]

\* checkRateLimit(actionKey, config)
checkRateLimit(actionKey, config) ==
    /\ Len(checks) < MaxChecks
    /\ Cardinality(DOMAIN buckets \cup {actionKey}) <= MaxKeys
    /\ LET bucket == refilled(bucketAt(actionKey, config), config)
       IN buckets' = Put(buckets, actionKey,
                         IF bucket.tokens > 0 THEN [bucket EXCEPT !.tokens = bucket.tokens - 1]
                         ELSE bucket)
    /\ checks' = Append(checks, [key |-> actionKey, at |-> now,
                                 result |-> rateLimitResult(actionKey, config)])

\* the actions the screens pass to rateLimitCreate (create-group.tsx 82,
\* add-expense.tsx 57, sign-up.tsx 64, analytics.tsx 253) and to rateLimitDelete
\* (settings.tsx 43)
CreateActions == {"group", "expense", "signUp", "signIn"}
DeleteActions == {"clearAll"}

\* rateLimitCreate(action): checkRateLimit(`create:${action}`, DEFAULT_CONFIG)
rateLimitCreate(action) ==
    /\ checkRateLimit("create:" \o action, DEFAULT_CONFIG)
    /\ UNCHANGED <<now, engineVars, storeVars, appVars>>

\* rateLimitDelete(action): checkRateLimit(`delete:${action}`, STRICT_CONFIG)
rateLimitDelete(action) ==
    /\ checkRateLimit("delete:" \o action, STRICT_CONFIG)
    /\ UNCHANGED <<now, engineVars, storeVars, appVars>>

\* rateLimitSettle(): checkRateLimit('settle', DEFAULT_CONFIG)
rateLimitSettle ==
    /\ checkRateLimit("settle", DEFAULT_CONFIG)
    /\ UNCHANGED <<now, engineVars, storeVars, appVars>>

\* time passes between two calls
tick ==
    /\ \E t \in Instants : t > now /\ now' = t
    /\ UNCHANGED <<buckets, checks, engineVars, storeVars, appVars>>

\* the engine is not in use
engineIdle ==
    /\ members = <<>>
    /\ expenses = <<>>
    /\ settlements = <<>>
    /\ pc = "ready"
    /\ balances = <<>>
    /\ creditors = <<>>
    /\ debtors = <<>>
    /\ i = 0
    /\ j = 0
    /\ transactions = <<>>
    /\ results = <<>>
    /\ given = <<>>
    /\ recorded = <<>>
    /\ inFlight = <<>>
    /\ params = <<>>

InitLimiter == engineIdle /\ limiterStart /\ storeStart /\ appStart

NextLimiter ==
    \/ \E action \in CreateActions : rateLimitCreate(action)
    \/ \E action \in DeleteActions : rateLimitDelete(action)
    \/ rateLimitSettle
    \/ tick

SpecLimiter == InitLimiter /\ [][NextLimiter]_vars

\* ----- strings, sanitizing and validation (src/utils/validation.ts) ---------------
\* A string is a sequence of characters.  "\t" and "\n" stand for the control
\* characters, " " for white space, "<" and ">" for the angle brackets.
GROUP_NAME_MAX == 50
GROUP_NAME_MIN == 1
MEMBER_NAME_MAX == 30
MEMBER_NAME_MIN == 1
AMOUNT_MAX == 10000000
AMOUNT_MIN == 5
MEMBERS_MAX == 20
GROUPS_MAX == 50
EXPENSES_PER_GROUP_MAX == 500

\* [\x00-\x1F\x7F]
ControlChars == {"\t", "\n"}

\* [<>]
AngleBrackets == {"<", ">"}

\* \s, once the control characters are gone
IsSpace(c) == c = " "

\* [a-zA-Z...] of validateMemberName
Letters == {"a", "b", "g", "m", "A", "B"}

\* input.replace(/[...]/g, ''): the characters of chars taken out
strip(input, chars) == SelectSeq(input, LAMBDA c : c \notin chars)

RECURSIVE trimStart(_)
trimStart(input) ==
    IF input # <<>> /\ IsSpace(Head(input)) THEN trimStart(Tail(input)) ELSE input

RECURSIVE trimEnd(_)
trimEnd(input) ==
    IF input # <<>> /\ IsSpace(input[Len(input)]) THEN trimEnd(SubSeq(input, 1, Len(input) - 1))
    ELSE input

\* String.prototype.trim
trim(input) == trimEnd(trimStart(input))

RECURSIVE collapse(_)
\* input.replace(/\s+/g, ' '): every run of white space becomes one space
collapse(input) ==
    IF Len(input) < 2 THEN input
    ELSE IF IsSpace(input[1]) /\ IsSpace(input[2]) THEN collapse(Tail(input))
    ELSE <<Head(input)>> \o collapse(Tail(input))

sanitizeString(input) == collapse(trim(strip(strip(input, ControlChars), AngleBrackets)))

\* String.prototype.toLowerCase
toLowerCase(input) ==
    [k \in 1..Len(input) |->
        IF input[k] = "A" THEN "a" ELSE IF input[k] = "B" THEN "b" ELSE input[k]]

\* validateGroupName(name).valid
validateGroupName(name) ==
    LET clean == sanitizeString(name)
    IN Len(clean) >= GROUP_NAME_MIN /\ Len(clean) <= GROUP_NAME_MAX

\* validateMemberName(name).valid
validateMemberName(name) ==
    LET clean == sanitizeString(name)
    IN /\ Len(clean) >= MEMBER_NAME_MIN
       /\ Len(clean) <= MEMBER_NAME_MAX
       /\ \E k \in 1..Len(clean) : clean[k] \in Letters

VALID_CATEGORIES == {"trip", "roommates", "dinner", "party", "shopping", "office", "custom"}

\* validateCategory(category).valid
validateCategory(category) == category \in VALID_CATEGORIES

\* validateAmount(amount).valid, amount a number in ticks (AMOUNT_MIN is 0.01, that is
\* 5 ticks; AMOUNT_MAX is in whole currency units of 500 ticks)
validateAmount(amount) ==
    /\ amount >= AMOUNT_MIN
    /\ (amount + 499) \div 500 <= AMOUNT_MAX
    /\ round2(amount) = amount

\* validateMemberCount(current).valid
validateMemberCount(current) == ~(current >= MEMBERS_MAX)

\* validateGroupCount(current).valid
validateGroupCount(current) == ~(current >= GROUPS_MAX)

\* validateExpenseCount(current).valid
validateExpenseCount(current) == ~(current >= EXPENSES_PER_GROUP_MAX)

\* getMemberColor(index): the index into MEMBER_COLORS
MEMBER_COLORS == 15
getMemberColor(index) == index % MEMBER_COLORS

\* ----- the store (src/store/useStore.ts) --------------------------------------------
\* Every action of the store is async: it runs up to its first await when it is
\* called, and goes on when the backend answers.  A task of pending is a call that
\* waits for an answer, with the constants of its closure.  Fields that no code of
\* the store reads (userId, createdAt, date, expense category and split type) are
\* left out of the rows.
MemberRow(id, groupId, name, color, sortOrder) ==
    [id |-> id, groupId |-> groupId, name |-> name, color |-> color, sortOrder |-> sortOrder]

DigitChars == <<"0", "1", "2", "3", "4", "5", "6", "7", "8", "9">>

\* the names "m1", "m2", ... of the members the backend already holds
NumberedName(k) ==
    IF k < 10 THEN <<"m", DigitChars[k + 1]>>
    ELSE <<"m", DigitChars[(k \div 10) + 1], DigitChars[(k % 10) + 1]>>

\* a group row of the backend with n members, last member first
BackendGroup(id, n) ==
    [id |-> id, name |-> <<"g">>, category |-> "trip",
     members |-> [k \in 1..n |->
        MemberRow(100 * id + (n + 1 - k), id, NumberedName(n + 1 - k), getMemberColor(n - k), n - k)]]

\* what select('*, members(*)') may return: nothing, one small group, one group one
\* member short of the limit, one group short of the limit of groups
BackendGroups ==
    {<<>>, <<BackendGroup(1, 2)>>, <<BackendGroup(1, MEMBERS_MAX - 1)>>,
     [g \in 1..(GROUPS_MAX - 1) |-> BackendGroup(g, 2)]}

BackendExpenses ==
    {<<>>, <<[id |-> 90, groupId |-> 1, description |-> <<"a">>, amount |-> 500, paidById |-> 101,
              splits |-> <<[memberId |-> 102, amount |-> 500]>>]>>}

BackendSettlements ==
    {<<>>, <<[id |-> 95, groupId |-> 1, fromId |-> 102, toId |-> 101, amount |-> 250]>>}

\* rows.sort((a, b) => a.sort_order - b.sort_order), the sort orders being distinct
sortBySortOrder(rows) ==
    [k \in 1..Len(rows) |->
        rows[CHOOSE q \in 1..Len(rows) :
            Cardinality({r \in 1..Len(rows) : rows[r].sortOrder < rows[q].sortOrder}) = k - 1]]

\* hydrate: groupRows mapped to Group objects
mapGroups(groupRows) ==
    [g \in 1..Len(groupRows) |-> [groupRows[g] EXCEPT !.members = sortBySortOrder(@)]]

\* the sequence without its k-th entry
RemoveAt(seq, k) == SubSeq(seq, 1, k - 1) \o SubSeq(seq, k + 1, Len(seq))

\* { ...g, ...updates }
spread(g, updates) ==
    [f \in (DOMAIN g) \cup (DOMAIN updates) |-> IF f \in DOMAIN updates THEN updates[f] ELSE g[f]]

\* a store action can be called
canStart == started < MaxStarted /\ Len(pending) < MaxPending

\* ----- what a finished call returned
\* null, true, false and undefined as the strings of their names; an id as its digits
null == "null"
true == "true"
false == "false"
undefined == "undefined"

\* what the log holds for a call whose promise was rejected instead of resolved
rejected == "rejected"

\* an entry of log: the call with number callNo of action op, made for the group groupId
\* (0: for no group), returned value; error says whether it went through its catch
\* block (console.error)
Returned(op, callNo, groupId, value, error) ==
    [op |-> op, call |-> callNo, groupId |-> groupId, value |-> value, error |-> error]

\* the action is called and returns before its first await
returnAtOnce(op, groupId, value) ==
    /\ log' = Append(log, Returned(op, started + 1, groupId, value, FALSE))
    /\ started' = started + 1
    /\ UNCHANGED pending

\* the action is called and waits for the backend
await(task) ==
    /\ pending' = Append(pending, task)
    /\ started' = started + 1
    /\ UNCHANGED log

\* the waiting call k returns
finish(k, value, error) ==
    /\ pending' = RemoveAt(pending, k)
    /\ log' = Append(log, Returned(pending[k].op, pending[k].call, pending[k].groupId, value, error))

\* the waiting call k goes on to its next await
goOn(k, task) ==
    /\ pending' = [pending EXCEPT ![k] = task]
    /\ UNCHANGED log

\* ----- hydrate
\* hydrate is called: up to the first fetch
hydrateCall == await([op |-> "hydrate", call |-> started + 1, groupId |-> 0, step |-> "groups"])

hydrate ==
    /\ canStart
    /\ hydrateCall
    /\ UNCHANGED <<store, nextId, engineVars, limiterVars, appVars>>

\* hydrateCatch that keeps the rows fetched before the failure
hydrateCatchPartial(k) ==
    /\ store' = [store EXCEPT !.isHydrated = TRUE,
                              !.groups = IF "groups" \in DOMAIN pending[k] THEN pending[k].groups ELSE @]
    /\ finish(k, undefined, TRUE)

\* catch (err): set({ isHydrated: true })
hydrateCatch(k) ==
    /\ store' = [store EXCEPT !.isHydrated = TRUE]
    /\ finish(k, undefined, TRUE)

\* the groups request answers
hydrateGroups ==
    /\ \E k \in 1..Len(pending) :
          /\ pending[k].op = "hydrate" /\ pending[k].step = "groups"
          /\ \/ hydrateCatch(k)
             \/ \E groupRows \in BackendGroups :
                   /\ goOn(k, [op |-> "hydrate", call |-> pending[k].call, groupId |-> 0, step |-> "expenses",
                               groups |-> mapGroups(groupRows)])
                   /\ UNCHANGED store
    /\ UNCHANGED <<nextId, started, engineVars, limiterVars, appVars>>

\* the expenses request answers
hydrateExpenses ==
    /\ \E k \in 1..Len(pending) :
          /\ pending[k].op = "hydrate" /\ pending[k].step = "expenses"
          /\ \/ hydrateCatch(k)
             \/ \E expenseRows \in BackendExpenses :
                   /\ goOn(k, [op |-> "hydrate", call |-> pending[k].call, groupId |-> 0, step |-> "settlements",
                               groups |-> pending[k].groups, expenses |-> expenseRows])
                   /\ UNCHANGED store
    /\ UNCHANGED <<nextId, started, engineVars, limiterVars, appVars>>

\* the settlements request answers: set({ groups, expenses, settlements, isHydrated: true })
hydrateSettlements ==
    /\ \E k \in 1..Len(pending) :
          /\ pending[k].op = "hydrate" /\ pending[k].step = "settlements"
          /\ \/ hydrateCatch(k)
             \/ \E settlementRows \in BackendSettlements :
                   /\ store' = [groups |-> pending[k].groups, expenses |-> pending[k].expenses,
                                settlements |-> settlementRows, isHydrated |-> TRUE]
                   /\ finish(k, undefined, FALSE)
    /\ UNCHANGED <<nextId, started, engineVars, limiterVars, appVars>>

\* clearLocal: set({ groups: [], expenses: [], settlements: [], isHydrated: false })
clearLocal ==
    store' = [groups |-> <<>>, expenses |-> <<>>, settlements |-> <<>>, isHydrated |-> FALSE]

\* ----- addGroup
\* what the screens pass as group name, category and member names
GroupNameInputs == {<<"g">>, <<" ", "g", "<">>, <<>>}

CategoryInputs == {"trip", "other"}

MemberNameLists ==
    {<<<<"a">>, <<"b">>>>, <<<<"a">>, <<"A">>>>, <<<<"a">>>>, <<<<"\t", "a">>, <<"b", " ">>, <<"1">>>>,
     [k \in 1..(MEMBERS_MAX + 1) |-> NumberedName(k)]}

\* memberNames.slice(0, MEMBERS_MAX).map(sanitizeString).filter(validateMemberName)
validMembersOf(memberNames) ==
    SelectSeq([k \in 1..Min(Len(memberNames), MEMBERS_MAX) |-> sanitizeString(memberNames[k])],
              LAMBDA n : validateMemberName(n))

\* addGroup(name, category, memberNames) is called: lines 157-180, up to
\* await supabase.auth.getUser(); a failed check returns null
addGroupCall(name, category, memberNames) ==
    LET cleanName == sanitizeString(name)
        validMembers == validMembersOf(memberNames)
    IN IF /\ validateGroupCount(Len(store.groups))
          /\ validateGroupName(cleanName)
          /\ validateCategory(category)
          /\ ~(Len(validMembers) < 2)
       THEN await([op |-> "addGroup", call |-> started + 1, groupId |-> 0, step |-> "getUser",
                   cleanName |-> cleanName, category |-> category, validMembers |-> validMembers])
       ELSE returnAtOnce("addGroup", 0, null)

addGroup ==
    /\ canStart
    /\ \E name \in GroupNameInputs, category \in CategoryInputs, memberNames \in MemberNameLists :
          addGroupCall(name, category, memberNames)
    /\ UNCHANGED <<store, nextId, engineVars, limiterVars, appVars>>

\* getUser answers: no user returns null, a rejected request is caught and returns
\* null, a user goes on to insert the group
addGroupUser ==
    /\ \E k \in 1..Len(pending) :
          /\ pending[k].op = "addGroup" /\ pending[k].step = "getUser"
          /\ \/ finish(k, null, FALSE)
             \/ finish(k, null, TRUE)
             \/ goOn(k, [pending[k] EXCEPT !.step = "insertGroup"])
    /\ UNCHANGED <<store, nextId, started, engineVars, limiterVars, appVars>>

\* the insert into groups answers: an error returns null, a row goes on to the members
addGroupInserted ==
    /\ \E k \in 1..Len(pending) :
          /\ pending[k].op = "addGroup" /\ pending[k].step = "insertGroup"
          /\ \/ finish(k, null, TRUE) /\ UNCHANGED nextId
             \/ /\ goOn(k, [op |-> "addGroup", call |-> pending[k].call, groupId |-> 0, step |-> "insertMembers",
                            validMembers |-> pending[k].validMembers,
                            groupData |-> [id |-> nextId, name |-> pending[k].cleanName,
                                           category |-> pending[k].category]])
                /\ nextId' = nextId + 1
    /\ UNCHANGED <<store, started, engineVars, limiterVars, appVars>>

\* the insert into members answers: set((state) => ({ groups: [newGroup, ...state.groups] }))
addGroupMembers ==
    /\ \E k \in 1..Len(pending) :
          /\ pending[k].op = "addGroup" /\ pending[k].step = "insertMembers"
          /\ \/ finish(k, null, TRUE) /\ UNCHANGED <<store, nextId>>
             \/ LET groupData == pending[k].groupData
                    validMembers == pending[k].validMembers
                    memberData == [q \in 1..Len(validMembers) |->
                        MemberRow(nextId + q - 1, groupData.id, validMembers[q],
                                  getMemberColor(q - 1), q - 1)]
                    newGroup == [id |-> groupData.id, name |-> groupData.name,
                                 category |-> groupData.category, members |-> memberData]
                IN /\ store' = [store EXCEPT !.groups = <<newGroup>> \o @]
                   /\ nextId' = nextId + Len(validMembers)
                   /\ finish(k, ToString(groupData.id), FALSE)
    /\ UNCHANGED <<started, engineVars, limiterVars, appVars>>

\* ----- addMemberToGroup
\* the group the screens act on: the first hydrated one or the first created one
GroupIdInputs == {1, FirstNewId}

MemberNameInputs == {<<"a">>, <<"A">>, <<"b">>, <<" ", "b">>, <<"1">>}

\* addMemberToGroup is called: lines 284-299, up to the insert; a missing group or a
\* failed check returns false
addMemberToGroup ==
    /\ canStart
    /\ \E groupId \in GroupIdInputs, name \in MemberNameInputs :
          IF ~(\E g \in 1..Len(store.groups) : store.groups[g].id = groupId)
          THEN returnAtOnce("addMemberToGroup", groupId, false)
          ELSE LET group == store.groups[CHOOSE g \in 1..Len(store.groups) : store.groups[g].id = groupId]
                   cleanName == sanitizeString(name)
               IN IF /\ validateMemberCount(Len(group.members))
                     /\ validateMemberName(cleanName)
                     /\ ~(\E m \in 1..Len(group.members) :
                            toLowerCase(group.members[m].name) = toLowerCase(cleanName))
                  THEN await([op |-> "addMemberToGroup", call |-> started + 1, step |-> "insert",
                              groupId |-> groupId, cleanName |-> cleanName, group |-> group])
                  ELSE returnAtOnce("addMemberToGroup", groupId, false)
    /\ UNCHANGED <<store, nextId, engineVars, limiterVars, appVars>>

\* the insert into members answers: an error returns false, a row is appended to the
\* members of the group in the current state
addMemberInserted ==
    /\ \E k \in 1..Len(pending) :
          /\ pending[k].op = "addMemberToGroup" /\ pending[k].step = "insert"
          /\ \/ finish(k, false, TRUE) /\ UNCHANGED <<store, nextId>>
             \/ LET group == pending[k].group
                    newMember == MemberRow(nextId, pending[k].groupId, pending[k].cleanName,
                                           getMemberColor(Len(group.members)), Len(group.members))
                IN /\ store' = [store EXCEPT !.groups =
                          [g \in 1..Len(@) |->
                              IF @[g].id # pending[k].groupId THEN @[g]
                              ELSE [@[g] EXCEPT !.members = Append(@, newMember)]]]
                   /\ nextId' = nextId + 1
                   /\ finish(k, true, FALSE)
    /\ UNCHANGED <<started, engineVars, limiterVars, appVars>>

\* ----- updateGroup
\* updates: a name, a category or both
UpdateInputs ==
    {[name |-> <<"b">>], [name |-> <<" ", "b", "<">>], [name |-> <<>>], [category |-> "dinner"],
     [category |-> "other"], [name |-> <<"\t", "b">>, category |-> "party"]}

\* if (updates.name), if (updates.category)
hasName(updates) == "name" \in DOMAIN updates /\ updates.name # <<>>
hasCategory(updates) == "category" \in DOMAIN updates /\ updates.category # ""

\* the object sent to the backend
safeUpdatesOf(updates) ==
    [f \in {x \in {"name", "category"} :
               (x = "name" /\ hasName(updates)) \/ (x = "category" /\ hasCategory(updates))} |->
        IF f = "name" THEN sanitizeString(updates.name) ELSE updates.category]

\* updateGroup is called: lines 232-249, up to the update request; a failed check returns
updateGroup ==
    /\ canStart
    /\ \E id \in GroupIdInputs, updates \in UpdateInputs :
          IF /\ hasName(updates) => validateGroupName(sanitizeString(updates.name))
             /\ hasCategory(updates) => validateCategory(updates.category)
          THEN await([op |-> "updateGroup", call |-> started + 1, groupId |-> id, step |-> "update",
                      updates |-> updates, safeUpdates |-> safeUpdatesOf(updates)])
          ELSE returnAtOnce("updateGroup", id, undefined)
    /\ UNCHANGED <<store, nextId, engineVars, limiterVars, appVars>>

\* the update answers: an error changes nothing, success merges updates into the group
updateGroupDone ==
    /\ \E k \in 1..Len(pending) :
          /\ pending[k].op = "updateGroup" /\ pending[k].step = "update"
          /\ \/ finish(k, undefined, TRUE) /\ UNCHANGED store
             \/ /\ store' = [store EXCEPT !.groups =
                       [g \in 1..Len(@) |->
                           IF @[g].id = pending[k].groupId THEN spread(@[g], pending[k].updates) ELSE @[g]]]
                /\ finish(k, undefined, FALSE)
    /\ UNCHANGED <<nextId, started, engineVars, limiterVars, appVars>>

\* ----- deleteGroup
\* deleteGroup(id) is called from the Group screen: up to the delete request
deleteGroup ==
    /\ canStart
    /\ \E id \in GroupIdInputs :
          await([op |-> "deleteGroup", call |-> started + 1, groupId |-> id, step |-> "delete"])
    /\ UNCHANGED <<store, nextId, engineVars, limiterVars, appVars>>

\* the delete answers: an error changes nothing, success filters the three lists
deleteGroupDone ==
    /\ \E k \in 1..Len(pending) :
          /\ pending[k].op = "deleteGroup" /\ pending[k].step = "delete"
          /\ \/ finish(k, undefined, TRUE) /\ UNCHANGED store
             \/ /\ store' = [store EXCEPT
                       !.groups = SelectSeq(@, LAMBDA g : g.id # pending[k].groupId),
                       !.expenses = SelectSeq(@, LAMBDA e : e.groupId # pending[k].groupId),
                       !.settlements = SelectSeq(@, LAMBDA s : s.groupId # pending[k].groupId)]
                /\ finish(k, undefined, FALSE)
    /\ UNCHANGED <<nextId, started, engineVars, limiterVars, appVars>>

\* ----- addExpense
DescriptionInputs == {<<"a">>, <<"<", "a", " ", " ", "b", "\n">>}

\* an expense of group 1 as the Add Expense screen passes it (1.00, or 0.254 typed in)
ExpenseInputs ==
    {[groupId |-> 1, description |-> d, amount |-> a, paidById |-> 101,
      splits |-> <<[memberId |-> 102, amount |-> 127]>>] : d \in DescriptionInputs, a \in {500, 127}}

\* addExpense is called from the Add Expense screen: lines 336-363, up to the insert
\* of the expense; a failed check returns false
addExpense ==
    /\ canStart
    /\ \E expense \in ExpenseInputs :
          LET groupExpenses == SelectSeq(store.expenses, LAMBDA e : e.groupId = expense.groupId)
          IN IF validateExpenseCount(Len(groupExpenses)) /\ validateAmount(expense.amount)
             THEN await([op |-> "addExpense", call |-> started + 1, groupId |-> expense.groupId,
                         step |-> "insertExpense",
                         expense |-> expense, cleanDesc |-> sanitizeString(expense.description),
                         normalizedAmount |-> round2(expense.amount)])
             ELSE returnAtOnce("addExpense", expense.groupId, false)
    /\ UNCHANGED <<store, nextId, engineVars, limiterVars, appVars>>

\* the insert into expenses answers
addExpenseInserted ==
    /\ \E k \in 1..Len(pending) :
          /\ pending[k].op = "addExpense" /\ pending[k].step = "insertExpense"
          /\ \/ finish(k, false, TRUE) /\ UNCHANGED nextId
             \/ /\ goOn(k, [op |-> "addExpense", call |-> pending[k].call,
                            groupId |-> pending[k].groupId, step |-> "insertSplits",
                            expense |-> pending[k].expense,
                            expData |-> [id |-> nextId, groupId |-> pending[k].expense.groupId,
                                         description |-> pending[k].cleanDesc,
                                         amount |-> pending[k].normalizedAmount,
                                         paidById |-> pending[k].expense.paidById]])
                /\ nextId' = nextId + 1
    /\ UNCHANGED <<store, started, engineVars, limiterVars, appVars>>

\* addExpenseSplits that keeps the expense in the list when the splits were refused
addExpenseSplitsKept ==
    /\ \E k \in 1..Len(pending) :
          /\ pending[k].op = "addExpense" /\ pending[k].step = "insertSplits"
          /\ LET expData == pending[k].expData
                 newExpense == [id |-> expData.id, groupId |-> expData.groupId,
                                description |-> expData.description, amount |-> expData.amount,
                                paidById |-> expData.paidById, splits |-> pending[k].expense.splits]
             IN /\ store' = [store EXCEPT !.expenses = <<newExpense>> \o @]
                /\ \/ finish(k, false, TRUE)
                   \/ finish(k, true, FALSE)
    /\ UNCHANGED <<nextId, started, engineVars, limiterVars, appVars>>

\* the insert into expense_splits answers:
\* set((state) => ({ expenses: [newExpense, ...state.expenses] }))
addExpenseSplits ==
    /\ \E k \in 1..Len(pending) :
          /\ pending[k].op = "addExpense" /\ pending[k].step = "insertSplits"
          /\ \/ finish(k, false, TRUE) /\ UNCHANGED store
             \/ LET expData == pending[k].expData
                    newExpense == [id |-> expData.id, groupId |-> expData.groupId,
                                   description |-> expData.description, amount |-> expData.amount,
                                   paidById |-> expData.paidById, splits |-> pending[k].expense.splits]
                IN /\ store' = [store EXCEPT !.expenses = <<newExpense>> \o @]
                   /\ finish(k, true, FALSE)
    /\ UNCHANGED <<nextId, started, engineVars, limiterVars, appVars>>

\* ----- addSettlement
\* a settlement of group 1 as the Settle Up screen passes it: 0.50, 0.254 or nothing,
\* from member 102 to member 101 or to 102 itself
SettlementInputs ==
    {[groupId |-> 1, fromId |-> 102, toId |-> t, amount |-> a] : t \in {101, 102}, a \in {250, 127, 0}}

\* addSettlement(groupId, fromId, toId, amount) is called from the Settle Up screen:
\* lines 422-436, up to the insert; a failed check returns false
addSettlement ==
    /\ canStart
    /\ \E s \in SettlementInputs :
          IF validateAmount(s.amount) /\ ~(s.fromId = s.toId)
          THEN await([op |-> "addSettlement", call |-> started + 1, step |-> "insert",
                      groupId |-> s.groupId, fromId |-> s.fromId, toId |-> s.toId,
                      amount |-> round2(s.amount)])
          ELSE returnAtOnce("addSettlement", s.groupId, false)
    /\ UNCHANGED <<store, nextId, engineVars, limiterVars, appVars>>

\* the insert into settlements answers:
\* set((state) => ({ settlements: [...state.settlements, settlement] }))
addSettlementInserted ==
    /\ \E k \in 1..Len(pending) :
          /\ pending[k].op = "addSettlement" /\ pending[k].step = "insert"
          /\ \/ finish(k, false, TRUE) /\ UNCHANGED <<store, nextId>>
             \/ LET settlement == [id |-> nextId, groupId |-> pending[k].groupId,
                                   fromId |-> pending[k].fromId, toId |-> pending[k].toId,
                                   amount |-> pending[k].amount]
                IN /\ store' = [store EXCEPT !.settlements = Append(@, settlement)]
                   /\ nextId' = nextId + 1
                   /\ finish(k, true, FALSE)
    /\ UNCHANGED <<started, engineVars, limiterVars, appVars>>

\* ----- deleteExpense
\* the id of a hydrated expense and the id the backend gives the first new row
ExpenseIdInputs == {90, FirstNewId}

\* deleteExpense(id) is called: lines 403-408, up to the delete request
deleteExpense ==
    /\ canStart
    /\ \E id \in ExpenseIdInputs :
          await([op |-> "deleteExpense", call |-> started + 1, groupId |-> 0, step |-> "delete",
                 id |-> id])
    /\ UNCHANGED <<store, nextId, engineVars, limiterVars, appVars>>

\* the delete answers: an error changes nothing, success filters the expenses
deleteExpenseDone ==
    /\ \E k \in 1..Len(pending) :
          /\ pending[k].op = "deleteExpense" /\ pending[k].step = "delete"
          /\ \/ finish(k, undefined, TRUE) /\ UNCHANGED store
             \/ /\ store' = [store EXCEPT
                       !.expenses = SelectSeq(@, LAMBDA e : e.id # pending[k].id)]
                /\ finish(k, undefined, FALSE)
    /\ UNCHANGED <<nextId, started, engineVars, limiterVars, appVars>>

\* ----- clearAll
\* clearAll() is called from the Settings screen: lines 466-472, up to the delete
\* request
clearAll ==
    /\ canStart
    /\ await([op |-> "clearAll", call |-> started + 1, groupId |-> 0, step |-> "delete"])
    /\ UNCHANGED <<store, nextId, engineVars, limiterVars, appVars>>

\* the delete answers: an error changes nothing, success empties the three lists
\* (set({ groups: [], expenses: [], settlements: [], currency }))
clearAllDone ==
    /\ \E k \in 1..Len(pending) :
          /\ pending[k].op = "clearAll" /\ pending[k].step = "delete"
          /\ \/ finish(k, undefined, TRUE) /\ UNCHANGED store
             \/ /\ store' = [store EXCEPT !.groups = <<>>, !.expenses = <<>>,
                                           !.settlements = <<>>]
                /\ finish(k, undefined, FALSE)
    /\ UNCHANGED <<nextId, started, engineVars, limiterVars, appVars>>

InitStore == engineIdle /\ limiterStart /\ storeStart /\ appStart

NextStore ==
    \/ hydrate \/ hydrateGroups \/ hydrateExpenses \/ hydrateSettlements
    \/ addGroup \/ addGroupUser \/ addGroupInserted \/ addGroupMembers
    \/ addMemberToGroup \/ addMemberInserted
    \/ updateGroup \/ updateGroupDone
    \/ deleteGroup \/ deleteGroupDone
    \/ addExpense \/ addExpenseInserted \/ addExpenseSplits
    \/ addSettlement \/ addSettlementInserted
    \/ deleteExpense \/ deleteExpenseDone
    \/ clearAll \/ clearAllDone

SpecStore == InitStore /\ [][NextStore]_vars

\* ----- the screens and the AuthProvider (src/app, src/unnamed/part_003) -------------
\* what a screen showed: an alert, or a navigation for the addGroup call with number
\* callNo
Alert(title, message) == [shown |-> "alert", title |-> title, message |-> message, call |-> 0]

AlertFor(title, message, callNo) ==
    [shown |-> "alert", title |-> title, message |-> message, call |-> callNo]

Replace(route, callNo) == [shown |-> "replace", route |-> route, call |-> callNo]

\* String(value) of a Promise, as the template literal of the route builds it
ObjectPromise == "[object Promise]"

\* !value
Not(value) == value \in {null, undefined, false, ""}

\* the members state of the Create Group screen: names that handleAddMember accepted
CreateMemberLists == {<<>>, <<<<"a">>>>, <<<<"a">>, <<"b">>>>}

\* handleCreate of the Create Group screen, shown to a signed-in user
handleCreate ==
    /\ session
    /\ Len(screen) < MaxShown
    /\ \E name \in GroupNameInputs, category \in {"trip"}, memberList \in CreateMemberLists :
          LET rateCheck == rateLimitResult("create:group", DEFAULT_CONFIG)
              groupId == ObjectPromise
          IN /\ checkRateLimit("create:group", DEFAULT_CONFIG)
             /\ IF ~rateCheck.allowed
                THEN /\ screen' = Append(screen, Alert("Hold On", "Slow down"))
                     /\ UNCHANGED <<pending, started, log>>
                ELSE IF ~validateGroupName(name)
                THEN /\ screen' = Append(screen, Alert("Error", "Group name"))
                     /\ UNCHANGED <<pending, started, log>>
                ELSE IF Len(memberList) < 2
                THEN /\ screen' = Append(screen, Alert("Error", "Add at least 2 members to the group."))
                     /\ UNCHANGED <<pending, started, log>>
                ELSE /\ canStart
                     /\ addGroupCall(sanitizeString(name), category, memberList)
                     /\ screen' = Append(screen,
                            IF Not(groupId)
                            THEN AlertFor("Error", "Could not create group.", started + 1)
                            ELSE Replace(<<"group", groupId>>, started + 1))
    /\ UNCHANGED <<now, store, nextId, session, engineVars>>

\* initSession and the onAuthStateChange callback wait for the backend like a store
\* action; they are waiting calls without a number of their own
AuthTask(op, step) == [op |-> op, call |-> 0, groupId |-> 0, step |-> step]

\* supabase.auth.getSession() answers initSession: setSession(session), and with a
\* session fetchProfile is called; an exception is caught and only reported
sessionFetched ==
    /\ \E k \in 1..Len(pending) :
          /\ pending[k].op = "initSession" /\ pending[k].step = "getSession"
          /\ \/ session' = TRUE /\ goOn(k, AuthTask("initSession", "profile"))
             \/ session' = FALSE /\ finish(k, undefined, FALSE)
             \/ UNCHANGED session /\ finish(k, undefined, TRUE)
    /\ UNCHANGED <<store, nextId, started, screen, engineVars, limiterVars>>

\* the onAuthStateChange callback runs: setSession(session); with a session it calls
\* fetchProfile, without one setProfile(null) and clearLocal()
onAuthStateChange ==
    \/ /\ Len(pending) < MaxPending
       /\ session' = TRUE
       /\ pending' = Append(pending, AuthTask("onAuthStateChange", "profile"))
       /\ UNCHANGED <<store, nextId, started, log, screen, engineVars, limiterVars>>
    \/ /\ session' = FALSE
       /\ clearLocal
       /\ UNCHANGED <<pending, nextId, started, log, screen, engineVars, limiterVars>>

\* the profile request of fetchProfile answers (its outcome only sets the profile):
\* initSession or the callback goes on and calls hydrate()
profileFetched ==
    /\ started < MaxStarted
    /\ \E k \in 1..Len(pending) :
          /\ pending[k].op \in {"initSession", "onAuthStateChange"}
          /\ pending[k].step = "profile"
          /\ pending' = [pending EXCEPT ![k] =
                 [op |-> "hydrate", call |-> started + 1, groupId |-> 0, step |-> "groups"]]
    /\ started' = started + 1
    /\ UNCHANGED <<store, nextId, log, session, screen, engineVars, limiterVars>>

\* signOut of the Settings screen: clearLocal(), up to await supabase.auth.signOut()
signOut ==
    /\ canStart
    /\ clearLocal
    /\ await([op |-> "signOut", call |-> started + 1, groupId |-> 0, step |-> "auth"])
    /\ UNCHANGED <<nextId, session, screen, engineVars, limiterVars>>

\* supabase.auth.signOut() resolves: setProfile(null), and signOut returns; when it is
\* rejected signOut, which has no catch, is rejected as well
signOutDone ==
    /\ \E k \in 1..Len(pending) :
          /\ pending[k].op = "signOut" /\ pending[k].step = "auth"
          /\ \/ finish(k, undefined, FALSE)
             \/ finish(k, rejected, FALSE)
    /\ UNCHANGED <<store, nextId, started, session, screen, engineVars, limiterVars>>

\* the AuthProvider is mounted: initSession() has been called and waits for getSession
InitApp ==
    /\ engineIdle /\ limiterStart /\ appStart
    /\ store = [groups |-> <<>>, expenses |-> <<>>, settlements |-> <<>>, isHydrated |-> FALSE]
    /\ pending = <<AuthTask("initSession", "getSession")>>
    /\ nextId = FirstNewId
    /\ started = 0
    /\ log = <<>>

NextApp ==
    \/ sessionFetched \/ onAuthStateChange \/ profileFetched
    \/ hydrateGroups \/ hydrateExpenses \/ hydrateSettlements
    \/ signOut \/ signOutDone
    \/ handleCreate \/ addGroupUser \/ addGroupInserted \/ addGroupMembers

SpecApp == InitApp /\ [][NextApp]_vars

\* ----- settling one suggestion at a time (src/app/group/[id]) -----------------------
\* The Group screen shows the suggestions of its last render (pc = "done"); a change of
\* the store makes it render again (pc = "changed", then call, loopStep and return).

\* the Settle button of row n of the Group screen (index.tsx 128-134): router.push of the
\* Settle Up screen with the suggestion as params; amount.toString() and the
\* parseFloat of settle.tsx 33 give back the same number
pressSettle ==
    /\ pc = "done"
    /\ params = <<>>
    /\ \E n \in 1..Len(transactions) :
          params' = <<[row |-> n, fromId |-> transactions[n].fromId,
                       toId |-> transactions[n].toId, amount |-> transactions[n].amount]>>
    /\ UNCHANGED <<members, expenses, settlements, pc, balances, creditors, debtors, i, j,
                   transactions, results, given, recorded, inFlight, limiterVars, storeVars,
                   appVars>>

\* the back arrow of the Settle Up screen, or Cancel and back: nothing is recorded
goBack ==
    /\ params # <<>>
    /\ pc \in {"ready", "done", "changed"}
    /\ params' = <<>>
    /\ UNCHANGED <<members, expenses, settlements, pc, balances, creditors, debtors, i, j,
                   transactions, results, given, recorded, inFlight, limiterVars, storeVars,
                   appVars>>

\* Confirm on the Settle Up screen (settle.tsx 41-44): addSettlement(id, fromId, toId,
\* amount) is called and not awaited, then router.back().  addSettlement (useStore.ts
\* 421-436) returns false at once when the amount or the two ids fail its checks, and
\* sends the insert otherwise
handleSettle ==
    /\ params # <<>>
    /\ pc \in {"ready", "done", "changed"}
    /\ LET t == params[1]
       IN IF validateAmount(t.amount) /\ ~(t.fromId = t.toId)
          THEN /\ Len(inFlight) < MaxPending
               /\ inFlight' = Append(inFlight, [row |-> t.row, fromId |-> t.fromId, toId |-> t.toId,
                                                 amount |-> round2(t.amount)])
          ELSE UNCHANGED inFlight
    /\ params' = <<>>
    /\ UNCHANGED <<members, expenses, settlements, pc, balances, creditors, debtors, i, j,
                   transactions, results, given, recorded, limiterVars, storeVars, appVars>>

\* the insert of a waiting addSettlement answers (useStore.ts 438-454): with the row,
\* the settlement is appended to the store and the Group screen is due to render; with
\* an error, the call returns false and nothing is recorded
settlementInserted ==
    /\ pc \in {"ready", "done", "changed"}
    /\ \E k \in 1..Len(inFlight) :
          /\ inFlight' = RemoveAt(inFlight, k)
          /\ \/ /\ settlements' = Append(settlements,
                         Settlement(inFlight[k].fromId, inFlight[k].toId, inFlight[k].amount))
                /\ recorded' = Append(recorded, inFlight[k].row)
                /\ pc' = "changed"
             \/ UNCHANGED <<settlements, recorded, pc>>
    /\ UNCHANGED <<members, expenses, balances, creditors, debtors, i, j, transactions, results,
                   given, params, limiterVars, storeVars, appVars>>

NextSettle ==
    \/ call \/ loopStep \/ return
    \/ pressSettle \/ goBack \/ handleSettle \/ settlementInserted

\* the Group screen of a group of five
SpecSettle == InitFive /\ [][NextSettle]_vars

\* ----- vocabulary of the properties -----------------------------------------------
\* a balance within 0.01 of zero
Settled(b) == Abs(b) <= 5

MemberIds == {members[k].id : k \in 1..Len(members)}

\* the ids named by the expenses and settlements
ReferencedIds ==
    {expenses[k].paidById : k \in 1..Len(expenses)}
    \cup UNION {{expenses[k].splits[q].memberId : q \in 1..Len(expenses[k].splits)} : k \in 1..Len(expenses)}
    \cup {settlements[k].fromId : k \in 1..Len(settlements)}
    \cup {settlements[k].toId : k \in 1..Len(settlements)}

\* the balances variable holds calculateBalances of the current inputs
BalancesKnown == pc \in {"loop", "done"}

BalanceSum == Sum([k \in 1..Len(balances) |-> balances[k].balance])

NonSettled == Cardinality({k \in 1..Len(balances) : ~Settled(balances[k].balance)})

\* what member id paid, owes, repaid and was repaid, taken from the books directly
PaidBy(id) ==
    Sum([k \in 1..Len(expenses) |-> IF expenses[k].paidById = id THEN expenses[k].amount ELSE 0])
SplitTotal(splits) == Sum([q \in 1..Len(splits) |-> splits[q].amount])
SplitsOf(splits, id) ==
    Sum([q \in 1..Len(splits) |-> IF splits[q].memberId = id THEN splits[q].amount ELSE 0])
OwedBy(id) == Sum([k \in 1..Len(expenses) |-> SplitsOf(expenses[k].splits, id)])
SettledFrom(id) ==
    Sum([k \in 1..Len(settlements) |-> IF settlements[k].fromId = id THEN settlements[k].amount ELSE 0])
SettledTo(id) ==
    Sum([k \in 1..Len(settlements) |-> IF settlements[k].toId = id THEN settlements[k].amount ELSE 0])
Net(id) == PaidBy(id) - OwedBy(id) + SettledFrom(id) - SettledTo(id)

RECURSIVE asSettlements(_)
\* the suggestions as settlements: from = debtor, to = creditor, the stated amount
asSettlements(ts) ==
    IF ts = <<>> THEN <<>>
    ELSE <<Settlement(Head(ts).fromId, Head(ts).toId, Head(ts).amount)>> \o asSettlements(Tail(ts))

\* ----- C1 ---------------------------------------------------------------------------
\* C1 (as claimed): once every suggestion of calculateMinimumTransactions has been
\* recorded as a settlement and the balances recomputed, every member's balance
\* is within 0.01 of zero.
C1_SettlementClears ==
    pc = "done" =>
        LET after == calculateBalances(members, expenses, settlements \o asSettlements(transactions))
        IN \A k \in 1..Len(after) : Settled(after[k].balance)

\* ----- C2 ---------------------------------------------------------------------------
\* C2 (as claimed): the balances returned by calculateBalances sum to zero, within
\* 0.01 times the number of members.
C2_ZeroSum ==
    BalancesKnown => Abs(BalanceSum) <= 5 * Len(members)

\* ----- C3 ---------------------------------------------------------------------------
\* C3: each returned balance is (declared totals the member paid) - (the member's
\* splits) + (settlements from the member) - (settlements to the member), rounded
\* to two decimals.
C3_BalanceFormula ==
    BalancesKnown =>
        \A k \in 1..Len(balances) : balances[k].balance = round2(Net(balances[k].memberId))

\* a payer whose expense's declared total differs from the sum of its splits, and
\* a balance that the rounding changed
C3_Witness ==
    /\ pc = "done"
    /\ \E k \in 1..Len(balances) : balances[k].balance # Net(balances[k].memberId)
    /\ \E k \in 1..Len(balances), e \in 1..Len(expenses) :
          /\ expenses[e].paidById = balances[k].memberId
          /\ SplitTotal(expenses[e].splits) # expenses[e].amount
          /\ Len(expenses[e].splits) >= 2
          /\ Len(settlements) = 1

\* ----- C4 ---------------------------------------------------------------------------
\* C4: one BalanceEntry per input member, in member order, with the member's id and
\* name; a member named by no expense and no settlement has balance 0.
C4_OnePerMember ==
    BalancesKnown =>
        /\ Len(balances) = Len(members)
        /\ \A k \in 1..Len(members) :
              /\ balances[k].memberId = members[k].id
              /\ balances[k].memberName = members[k].name
              /\ members[k].id \notin ReferencedIds => balances[k].balance = 0

\* three members out of id order, one of them in no expense or settlement while
\* the books name the others
C4_Witness ==
    /\ pc = "done"
    /\ Len(members) = 3
    /\ members[1].id > members[2].id
    /\ \E k \in 1..3 : members[k].id \notin ReferencedIds
    /\ \E k \in 1..3 : balances[k].balance # 0

\* ----- C5 ---------------------------------------------------------------------------
\* C5 (as claimed): the number of suggestions is at most the number of non-settled
\* members less one.
C5_CountBound ==
    pc = "done" => Len(transactions) <= NonSettled - 1

\* C5 (amended): the number of suggestions is at most the number of non-settled
\* members less one when some member is non-settled, and zero when none is.
C5_CountBoundAmended ==
    pc \in {"loop", "done"} => Len(transactions) <= Max(0, NonSettled - 1)

\* three non-settled members and the bound met
C5_Witness ==
    /\ pc = "done"
    /\ NonSettled = 3
    /\ Len(transactions) = 2

\* ----- C6 ---------------------------------------------------------------------------
\* C6: when every returned balance is within 0.01 of zero, calculateMinimumTransactions
\* returns the empty sequence.
C6_AllSettledNoSuggestions ==
    (pc \in {"loop", "done"} /\ \A k \in 1..Len(balances) : Settled(balances[k].balance))
        => transactions = <<>>

\* every balance within 0.01 of zero, with one at +0.01 and one at -0.01
C6_Witness ==
    /\ pc = "done"
    /\ \A k \in 1..Len(balances) : Settled(balances[k].balance)
    /\ \E k \in 1..Len(balances) : balances[k].balance = 5
    /\ \E k \in 1..Len(balances) : balances[k].balance = -5

\* ----- C7 ---------------------------------------------------------------------------
\* payments from a member who owes to a member who is owed, in whole cents
Payments ==
    {[fromId |-> balances[f].memberId, toId |-> balances[t].memberId, amount |-> 5 * c] :
        f \in {k \in 1..Len(balances) : balances[k].balance < 0},
        t \in {k \in 1..Len(balances) : balances[k].balance > 0},
        c \in 1..6}

\* the balance of entry k once the payments of plan are recorded
BalanceAfter(plan, k) ==
    balances[k].balance
    + Sum([q \in 1..Len(plan) |-> IF plan[q].fromId = balances[k].memberId THEN plan[q].amount ELSE 0])
    - Sum([q \in 1..Len(plan) |-> IF plan[q].toId = balances[k].memberId THEN plan[q].amount ELSE 0])

\* the plan brings every balance to exactly zero
Clears(plan) == \A k \in 1..Len(balances) : BalanceAfter(plan, k) = 0

\* C7 (as claimed): the returned plan has the smallest possible number of payments:
\* no plan of fewer debtor-to-creditor payments clears the same balances.
C7_Minimal ==
    pc = "done" =>
        \A n \in 0..(Len(transactions) - 1) : \A plan \in [1..n -> Payments] : ~Clears(plan)

\* ----- C8 ---------------------------------------------------------------------------
\* C8: an id that the expenses or settlements name and the member list does not is
\* tallied in the map and has no entry in the output, which still has exactly the
\* input members.
C8_UnknownIds ==
    BalancesKnown =>
        /\ \A id \in ReferencedIds \ MemberIds :
              /\ id \in DOMAIN tally(members, expenses, settlements)
              /\ tally(members, expenses, settlements)[id] = Net(id)
              /\ \A k \in 1..Len(balances) : balances[k].memberId # id
        /\ Len(balances) = Len(members)
        /\ {balances[k].memberId : k \in 1..Len(balances)} = MemberIds

\* a finished call on books whose split names a non-member that nothing else names
C8_Witness ==
    /\ pc = "done"
    /\ Len(members) = 2
    /\ \E id \in ReferencedIds \ MemberIds :
          /\ Net(id) < 0
          /\ PaidBy(id) = 0 /\ SettledFrom(id) = 0 /\ SettledTo(id) = 0
    /\ transactions # <<>>

\* ----- C9 ---------------------------------------------------------------------------
\* the interpreter runs a started call to completion
SpecFair == Spec /\ WF_vars(loopStep) /\ WF_vars(return)
SpecFiveFair == SpecFive /\ WF_vars(loopStep) /\ WF_vars(return)

\* C9: a call of calculateMinimumTransactions that has entered the matching loop
\* returns.
C9_Terminates == (pc = "loop") ~> (pc = "done")

\* a call that returned after its cursors moved three times
C9_Witness ==
    /\ pc = "done"
    /\ i + j >= 3
    /\ Len(transactions) >= 2

\* ----- C10 --------------------------------------------------------------------------
\* C10: a call leaves members, expenses and settlements as they were given, and a
\* second call on the same inputs returns what the first returned.
C10_Pure ==
    /\ pc \in {"loop", "done"} => inputs = given
    /\ \A a, b \in 1..Len(results) : results[a] = results[b]

\* a second call has returned the same non-empty plan after the first call used up
\* its working lists
C10_Witness ==
    /\ pc = "done"
    /\ Len(results) = 2
    /\ results[1] # <<>>
    /\ results[2] = results[1]
    /\ \E k \in 1..Len(balances) : balances[k].balance > 5

\* ----- C11 --------------------------------------------------------------------------
\* the number of allowed calls on actionKey made at or after from and before to
AllowedIn(actionKey, from, to) ==
    Cardinality({k \in 1..Len(checks) :
        /\ checks[k].key = actionKey
        /\ checks[k].result.allowed
        /\ from <= checks[k].at
        /\ checks[k].at < to})

\* C11 (as claimed): for each action key, any window of refillRateMs holds at most
\* maxTokens allowed calls (5 per 10 s for create actions, 3 per 15 s for delete
\* actions).
C11_WindowLimit ==
    \A k \in 1..Len(checks) :
        AllowedIn(checks[k].key, checks[k].at, checks[k].at + ConfigOf(checks[k].key).refillRateMs)
            <= ConfigOf(checks[k].key).maxTokens

\* ----- C12 --------------------------------------------------------------------------
\* C12 (as claimed): in every reachable state of the store, overlapping addGroup calls
\* included, the store holds at most GROUPS_MAX groups.
C12_GroupCapacity == Len(store.groups) <= GROUPS_MAX

\* ----- C13 --------------------------------------------------------------------------
\* the string is in the form sanitizeString gives
IsClean(string) == sanitizeString(string) = string

\* C13 (as claimed): every group name, member name and expense description that the
\* store holds is the cleaned form of what was passed in, never the raw input: cleaning
\* it again changes nothing.
C13_SanitizedStorage ==
    /\ \A g \in 1..Len(store.groups) :
          /\ IsClean(store.groups[g].name)
          /\ \A m \in 1..Len(store.groups[g].members) : IsClean(store.groups[g].members[m].name)
    /\ \A e \in 1..Len(store.expenses) : IsClean(store.expenses[e].description)

\* ----- C19 --------------------------------------------------------------------------
\* C19 (as claimed): in every reachable state of the store, overlapping
\* addMemberToGroup calls included, no group has more than MEMBERS_MAX members.
C19_MemberCapacity ==
    \A g \in 1..Len(store.groups) : Len(store.groups[g].members) <= MEMBERS_MAX

\* ----- C20 --------------------------------------------------------------------------
\* C20 (as claimed): in every reachable state of the store no group has two members
\* whose names are equal ignoring case.
C20_NoDuplicateNames ==
    \A g \in 1..Len(store.groups) :
        \A m1, m2 \in 1..Len(store.groups[g].members) :
            m1 # m2 =>
                toLowerCase(store.groups[g].members[m1].name)
                    # toLowerCase(store.groups[g].members[m2].name)

\* ----- C14 --------------------------------------------------------------------------
\* the returned balance of member id
BalanceOf(id) == balances[CHOOSE k \in 1..Len(balances) : balances[k].memberId = id].balance

FromIds == {transactions[q].fromId : q \in 1..Len(transactions)}
ToIds == {transactions[q].toId : q \in 1..Len(transactions)}

\* every suggestion goes from a debtor to a creditor, settled members are in no
\* suggestion, and nobody both pays and receives
C14_Parties ==
    pc \in {"loop", "done"} =>
        /\ \A q \in 1..Len(transactions) :
              /\ BalanceOf(transactions[q].fromId) < -5
              /\ BalanceOf(transactions[q].toId) > 5
        /\ \A k \in 1..Len(balances) :
              Settled(balances[k].balance) => balances[k].memberId \notin FromIds \cup ToIds
        /\ FromIds \cap ToIds = {}

\* C14 (as claimed): every suggestion has as from a member whose balance is below
\* -0.01, as to a member whose balance is above +0.01 and an amount greater than
\* 0.01; a member within 0.01 of zero is in no suggestion and no member is both a
\* from and a to.
C14_SuggestionShape ==
    /\ C14_Parties
    /\ pc \in {"loop", "done"} => \A q \in 1..Len(transactions) : transactions[q].amount > 5

\* ----- C15 --------------------------------------------------------------------------
HasCreditor == \E k \in 1..Len(balances) : balances[k].balance > 5
HasDebtor == \E k \in 1..Len(balances) : balances[k].balance < -5
LargestCredit == CHOOSE c \in {balances[k].balance : k \in 1..Len(balances)} :
                     \A k \in 1..Len(balances) : balances[k].balance <= c
LargestDebt == CHOOSE c \in {-balances[k].balance : k \in 1..Len(balances)} :
                   \A k \in 1..Len(balances) : -balances[k].balance <= c

\* C15: when there is a debtor and a creditor, the first suggestion goes from a
\* debtor with the largest debt to a creditor with the largest credit and its amount
\* is the smaller of the two.
C15_GreedyFirst ==
    /\ (pc = "done" /\ HasCreditor /\ HasDebtor) => transactions # <<>>
    /\ (pc \in {"loop", "done"} /\ transactions # <<>>) =>
          /\ -BalanceOf(transactions[1].fromId) = LargestDebt
          /\ BalanceOf(transactions[1].toId) = LargestCredit
          /\ transactions[1].amount = Min(LargestDebt, LargestCredit)

\* balances +50, +30, -40, -40: the first suggestion pays 40 to the +50 member
C15_Witness ==
    /\ pc = "done"
    /\ [k \in 1..Len(balances) |-> balances[k].balance] = <<25000, 15000, -20000, -20000>>
    /\ transactions[1].toId = 1
    /\ transactions[1].amount = 20000

\* ----- C16 --------------------------------------------------------------------------
DebtorEntries == {k \in 1..Len(balances) : balances[k].balance < -5}
CreditorEntries == {k \in 1..Len(balances) : balances[k].balance > 5}

\* C16 (as claimed): when exactly one member is a creditor and the balances sum to
\* zero, there is exactly one suggestion per debtor, paying that debtor's full debt
\* to the creditor.
C16_SingleCreditor ==
    (pc = "done" /\ Cardinality(CreditorEntries) = 1 /\ BalanceSum = 0) =>
        /\ Len(transactions) = Cardinality(DebtorEntries)
        /\ \A k \in DebtorEntries :
              \E q \in 1..Len(transactions) :
                  /\ transactions[q].fromId = balances[k].memberId
                  /\ transactions[q].toId = balances[CHOOSE c \in CreditorEntries : TRUE].memberId
                  /\ transactions[q].amount = -balances[k].balance

\* ----- C17 --------------------------------------------------------------------------
\* the balances the expenses alone leave
BalancesBefore == calculateBalances(members, expenses, <<>>)

\* the one settlement pays, from b to a, exactly what the expenses left b owing a
SettlesDebt(a, b) ==
    /\ BalancesBefore[b].balance < 0
    /\ BalancesBefore[a].balance = -BalancesBefore[b].balance
    /\ settlements = <<Settlement(members[b].id, members[a].id, -BalancesBefore[b].balance)>>

\* C17: in a group of two where the expenses leave one member owing the other x, one
\* settlement of x from the one to the other makes both balances 0 and leaves no
\* suggestion.
C17_SettleUp ==
    (pc \in {"loop", "done"} /\ Len(members) = 2 /\ (SettlesDebt(1, 2) \/ SettlesDebt(2, 1))) =>
        /\ \A k \in 1..Len(balances) : balances[k].balance = 0
        /\ transactions = <<>>

\* expense 100 paid by A, split 50/50, then B pays A 50
C17_Witness ==
    /\ pc = "done"
    /\ Len(members) = 2
    /\ expenses = <<Expense(1, 50000, <<ExpenseSplit(1, 25000), ExpenseSplit(2, 25000)>>)>>
    /\ SettlesDebt(1, 2)
    /\ settlements[1].amount = 25000
    /\ balances[1].balance = 0 /\ balances[2].balance = 0

\* ----- C18 --------------------------------------------------------------------------
\* the place of member id in the input
IndexOf(id) == CHOOSE k \in 1..Len(balances) : balances[k].memberId = id

\* a member owed or owing amountA comes before one owed or owing amountB
Before(idA, amountA, idB, amountB) ==
    amountA > amountB \/ (amountA = amountB /\ IndexOf(idA) <= IndexOf(idB))

\* C18: in the returned sequence the from members are in non-increasing order of
\* their original debt and the to members in non-increasing order of their original
\* credit, members with equal amounts in input member order.
C18_Order ==
    pc \in {"loop", "done"} =>
        \A p, q \in 1..Len(transactions) :
            p < q =>
                /\ Before(transactions[p].fromId, -BalanceOf(transactions[p].fromId),
                          transactions[q].fromId, -BalanceOf(transactions[q].fromId))
                /\ Before(transactions[p].toId, BalanceOf(transactions[p].toId),
                          transactions[q].toId, BalanceOf(transactions[q].toId))

\* two debtors with the same debt pay two creditors with the same credit
C18_Witness ==
    /\ pc = "done"
    /\ Len(transactions) = 2
    /\ transactions[1].fromId # transactions[2].fromId
    /\ transactions[1].toId # transactions[2].toId
    /\ BalanceOf(transactions[1].fromId) = BalanceOf(transactions[2].fromId)
    /\ BalanceOf(transactions[1].toId) = BalanceOf(transactions[2].toId)

\* ----- C21 --------------------------------------------------------------------------
\* the store holds a group, an expense or a settlement of group id
HoldsRowsOf(id) ==
    \/ \E g \in 1..Len(store.groups) : store.groups[g].id = id
    \/ \E e \in 1..Len(store.expenses) : store.expenses[e].groupId = id
    \/ \E s \in 1..Len(store.settlements) : store.settlements[s].groupId = id

\* C21: once deleteGroup(id) has succeeded and every call has returned, the store
\* holds no group, expense or settlement whose group id is id.  The calls that returned
\* after the delete were all made before deleteGroup was called (they were in flight
\* when it ran), and none of them loads or creates groups (hydrate, addGroup); the
\* store had been loaded by a hydrate before.
C21_DeleteCascades ==
    \A d \in 1..Len(log) :
        (/\ log[d].op = "deleteGroup"
         /\ ~log[d].error
         /\ log[1].op = "hydrate" /\ ~log[1].error /\ log[1].call = 1
         /\ pending = <<>>
         /\ \A h \in (d + 1)..Len(log) :
               /\ log[h].op \notin {"hydrate", "addGroup"}
               /\ log[h].call < log[d].call)
        => ~HoldsRowsOf(log[d].groupId)

\* ----- C22 --------------------------------------------------------------------------
\* this step is the return of a hydrate whose fetch failed
HydrateFails ==
    /\ Len(log') = Len(log) + 1
    /\ log'[Len(log')].op = "hydrate"
    /\ log'[Len(log')].error

\* C22: when one of the three fetches of hydrate fails, hydrate sets isHydrated and
\* leaves groups, expenses and settlements as they were.
C22_HydrateFailure ==
    [][HydrateFails =>
          /\ store'.isHydrated
          /\ store'.groups = store.groups
          /\ store'.expenses = store.expenses
          /\ store'.settlements = store.settlements]_vars

\* a hydrate has just failed in a store that an earlier hydrate had filled
C22_Witness ==
    /\ log # <<>>
    /\ log[Len(log)].op = "hydrate"
    /\ log[Len(log)].error
    /\ store.isHydrated
    /\ store.groups # <<>>
    /\ store.expenses # <<>>

\* ----- C23 --------------------------------------------------------------------------
\* C23: once the addGroup call of a handleCreate has returned, the screen has shown
\* the error alert and no navigation if it returned null, and has navigated, to the
\* page of the group id that was returned, only if it returned an id.
C23_CreateFailureShown ==
    \A r \in 1..Len(log), s \in 1..Len(screen) :
        (log[r].op = "addGroup" /\ screen[s].call = log[r].call) =>
            /\ log[r].value = null => screen[s].shown = "alert"
            /\ screen[s].shown = "replace" =>
                  log[r].value # null /\ screen[s].route = <<"group", log[r].value>>

\* ----- C24 --------------------------------------------------------------------------
\* C24: once signOut has returned, nobody is signed in and nothing is in flight, every
\* hydrate having started before signOut was called, the store's groups, expenses and
\* settlements are empty.
C24_SignOutClears ==
    \A o \in 1..Len(log) :
        (/\ log[o].op = "signOut"
         /\ log[o].value = undefined
         /\ ~session
         /\ pending = <<>>
         /\ \A h \in 1..Len(log) : log[h].op = "hydrate" => log[h].call < log[o].call)
        => store.groups = <<>> /\ store.expenses = <<>> /\ store.settlements = <<>>

\* ----- C25 --------------------------------------------------------------------------
\* the balances before the first suggestion was recorded
StartBalances ==
    calculateBalances(members, expenses,
                      SubSeq(settlements, 1, Len(settlements) - Len(recorded)))

NonSettledAtStart ==
    Cardinality({k \in 1..Len(StartBalances) : ~Settled(StartBalances[k].balance)})

\* C25 (as claimed): taking the first suggestion of the Group screen, recording it with
\* addSettlement and letting the screen compute the suggestions again, as often as one
\* is shown, empties the list, and never takes more recordings than there were
\* non-settled members at the start.  Stated here is the bound on the recordings.
C25_Converges ==
    (\A k \in 1..Len(recorded) : recorded[k] = 1) => Len(recorded) <= NonSettledAtStart

\* ----- C26 --------------------------------------------------------------------------
\* what the suggestions so far make member id pay, and receive
PaysInPlan(id) ==
    Sum([q \in 1..Len(transactions) |->
            IF transactions[q].fromId = id THEN transactions[q].amount ELSE 0])

ReceivesInPlan(id) ==
    Sum([q \in 1..Len(transactions) |->
            IF transactions[q].toId = id THEN transactions[q].amount ELSE 0])

\* C26: in a plan every debtor pays at most its debt (-balance) and every creditor
\* receives at most its credit (balance).
C26_Conservation ==
    pc \in {"loop", "done"} =>
        \A k \in 1..Len(balances) :
            /\ balances[k].balance < -5 => PaysInPlan(balances[k].memberId) <= -balances[k].balance
            /\ balances[k].balance > 5 => ReceivesInPlan(balances[k].memberId) <= balances[k].balance

\* a finished plan in which one debtor pays its whole debt in two suggestions and one
\* creditor receives its whole credit in two suggestions
C26_Witness ==
    /\ pc = "done"
    /\ \E k \in 1..Len(balances) :
          /\ balances[k].balance < -5
          /\ PaysInPlan(balances[k].memberId) = -balances[k].balance
          /\ Cardinality({q \in 1..Len(transactions) : transactions[q].fromId = balances[k].memberId}) = 2
    /\ \E k \in 1..Len(balances) :
          /\ balances[k].balance > 5
          /\ ReceivesInPlan(balances[k].memberId) = balances[k].balance
          /\ Cardinality({q \in 1..Len(transactions) : transactions[q].toId = balances[k].memberId}) = 2

\* ----- C27 --------------------------------------------------------------------------
\* this step is the return of an addGroup that resolves to null, or of an
\* addMemberToGroup, addExpense or addSettlement that resolves to false
MutationFails ==
    /\ Len(log') = Len(log) + 1
    /\ log'[Len(log')].op \in {"addGroup", "addMemberToGroup", "addExpense", "addSettlement"}
    /\ log'[Len(log')].value \in {null, false}

\* C27: a failed addGroup, addMemberToGroup, addExpense or addSettlement changes
\* nothing locally: the store is changed by no step in which such a call fails, and
\* by no step in which a call is made or goes on to its next request.
C27_FailureChangesNothing ==
    [][(MutationFails \/ Len(log') = Len(log)) => store' = store]_vars

\* a filled store in which a call has failed a check before its first request and
\* another has failed at the backend
C27_Witness ==
    /\ store.groups # <<>>
    /\ \E a, b \in 1..Len(log) :
          /\ log[a].op \in {"addExpense", "addSettlement"}
          /\ log[a].value = false
          /\ ~log[a].error
          /\ log[b].op \in {"addGroup", "addMemberToGroup", "addExpense", "addSettlement"}
          /\ log[b].value \in {null, false}
          /\ log[b].error

\* ----- C28 --------------------------------------------------------------------------
\* call k was denied, call m is a later call on the same key, made at least
\* retryAfterMs after call k with no allowed call on that key between the two
RetriedInTime(k, m) ==
    /\ k < m
    /\ checks[m].key = checks[k].key
    /\ ~checks[k].result.allowed
    /\ checks[m].at >= checks[k].at + checks[k].result.retryAfterMs
    /\ \A n \in (k + 1)..(m - 1) :
          checks[n].key = checks[k].key => ~checks[n].result.allowed

\* C28: a denied call returns a retryAfterMs of at least 1000, and a call on the same
\* key made at least retryAfterMs later, with no allowed call on that key in between,
\* is allowed.
C28_RetryAfter ==
    \A k \in 1..Len(checks) :
        /\ ~checks[k].result.allowed => checks[k].result.retryAfterMs >= 1000
        /\ \A m \in 1..Len(checks) : RetriedInTime(k, m) => checks[m].result.allowed

\* a call denied one millisecond before the refill is told to wait 1000 ms, and the
\* call made exactly 1000 ms later is allowed
C28_Witness ==
    \E k, m \in 1..Len(checks) :
        /\ RetriedInTime(k, m)
        /\ checks[k].result.retryAfterMs = 1000
        /\ checks[m].at = checks[k].at + 1000
        /\ checks[m].result.allowed

====
